---- MODULE Spec2Model ----
(***************************************************************************)
(* stargate-mcp: a tool server that registers Asana, Slack and GitHub      *)
(* Projects tools according to the credentials in its environment and      *)
(* serves tool invocations, each wrapping one REST or GraphQL request.     *)
(*                                                                         *)
(* JavaScript values are tagged records.  A handler is an operator of its  *)
(* arguments and of the outcome of the transport call it awaits; it yields *)
(* the transport call it makes and its completion: the envelope returned   *)
(* or the exception thrown.  A transport client is an operator of the      *)
(* process environment, its parameters and the HTTP response the external  *)
(* API gives to the request it issues.                                     *)
(***************************************************************************)
EXTENDS Integers, Sequences, FiniteSets, TLC

\* ------------------------------------------------------------------ bounds

\* Longest page of records (project items, channels, messages) in a response.
MaxRecords == 2
\* Longest top-level errors list in a GraphQL response.
MaxErrors == 2
\* Most invocations running at the same time.
MaxInFlight == 2

\* ------------------------------------------------------- JavaScript values

Undef == [t |-> "undefined"]
Null == [t |-> "null"]
Str(s) == [t |-> "string", v |-> s]
Num(n) == [t |-> "number", v |-> n]
Bool(b) == [t |-> "boolean", v |-> b]
\* An object: a function from its own keys to values.
Obj(f) == [t |-> "object", v |-> f]
Arr(s) == [t |-> "array", v |-> s]
\* A response body that is not JSON: its raw text.
Raw(s) == [t |-> "raw", v |-> s]
\* The text JSON.stringify produces for the (normalised) value j.
Json(j) == [t |-> "json", v |-> j]
\* The decimal text of the number n.
Digits(n) == [t |-> "digits", v |-> n]

NoKeys == [k \in {} |-> Undef]

\* if (x), !x, x ? a : b
Truthy(x) ==
  CASE x.t \in {"undefined", "null"} -> FALSE
    [] x.t = "string" -> x.v # ""
    [] x.t = "number" -> x.v # 0
    [] x.t = "boolean" -> x.v
    [] OTHER -> TRUE

\* a || b
CoalesceOr(a, b) == IF Truthy(a) THEN a ELSE b

\* a ?? b
Coalesce(a, b) == IF a.t \in {"undefined", "null"} THEN b ELSE a

\* `${x}`: the parts of the text of x
Interpolate(x) ==
  CASE x.t = "string" -> <<x>>
    [] x.t = "number" -> <<Digits(x.v)>>
    [] x.t = "text" -> x.v
    [] x.t = "json" -> <<x>>
    [] x.t = "undefined" -> <<Str("undefined")>>
    [] x.t = "null" -> <<Str("null")>>
    [] x.t = "boolean" -> <<Str(IF x.v THEN "true" ELSE "false")>>
    [] x.t = "error" -> <<Str(x.name), Str(": ")>> \o x.message
    [] OTHER -> <<Str("[object Object]")>>

\* A string built by a template literal: the sequence of its parts.
Text(parts) == [t |-> "text", v |-> parts]

\* new Error(message), and the exceptions the runtime raises
Error(message) == [t |-> "error", name |-> "Error", message |-> message]
TypeError(what) == [t |-> "error", name |-> "TypeError", message |-> <<Str(what)>>]
SyntaxError(what) == [t |-> "error", name |-> "SyntaxError", message |-> <<Str(what)>>]

\* Completions of an evaluation.
Return(v) == [thrown |-> FALSE, val |-> v]
Throw(e) == [thrown |-> TRUE, val |-> e]

\* x.k and x[k]: reading a property of undefined or null throws.
Get(x, k) ==
  CASE x.t \in {"undefined", "null"} ->
         Throw(TypeError("Cannot read properties of undefined or null"))
    [] x.t = "object" -> Return(IF k \in DOMAIN x.v THEN x.v[k] ELSE Undef)
    [] OTHER -> Return(Undef)

\* x?.k
GetOpt(x, k) ==
  IF x.t \in {"undefined", "null"} THEN Undef ELSE Get(x, k).val

\* A destructured parameter: undefined when the caller did not supply it.
Arg(args, k) == IF k \in DOMAIN args THEN args[k] ELSE Undef

\* JSON.stringify: keys whose value is undefined are dropped, undefined
\* entries of an array become null, and undefined itself gives undefined.
RECURSIVE JsonValue(_)
JsonValue(x) ==
  CASE x.t = "object" ->
         LET keep == {k \in DOMAIN x.v : x.v[k].t # "undefined"}
         IN Obj([k \in keep |-> JsonValue(x.v[k])])
    [] x.t = "array" ->
         Arr([i \in DOMAIN x.v |->
                IF x.v[i].t = "undefined" THEN Null ELSE JsonValue(x.v[i])])
    [] OTHER -> x

\* A serialiser that also drops the keys whose value is null.
RECURSIVE WithoutNulls(_)
WithoutNulls(x) ==
  CASE x.t = "object" ->
         LET keep == {k \in DOMAIN x.v : x.v[k].t \notin {"undefined", "null"}}
         IN Obj([k \in keep |-> WithoutNulls(x.v[k])])
    [] x.t = "array" ->
         Arr([i \in DOMAIN x.v |->
                IF x.v[i].t = "undefined" THEN Null ELSE WithoutNulls(x.v[i])])
    [] OTHER -> x

JSONstringifyWithoutNulls(x) ==
  IF x.t = "undefined" THEN Undef ELSE Json(WithoutNulls(x))

JSONstringify(x) == IF x.t = "undefined" THEN Undef ELSE Json(JsonValue(x))

\* ------------------------------------------------------------ environment

Integrations == {"ASANA_TOKEN", "SLACK_TOKEN", "GITHUB_TOKEN"}
\* process.env.X: undefined when unset; a set variable may be empty.
EnvValues == {Undef, Str(""), Str("secret")}

\* ---------------------------------------------------------- HTTP responses

NetworkFailure == [t |-> "failure"]
Response(status, statusText, body) ==
  [t |-> "response", status |-> status, statusText |-> statusText, body |-> body]
\* No response yet: the request is in flight.
Pending == [t |-> "pending"]

\* response.ok
ResponseOk(resp) == resp.status >= 200 /\ resp.status <= 299

\* await response.text()
ResponseText(resp) == IF resp.body.t = "raw" THEN Str(resp.body.v) ELSE Json(resp.body)

\* await response.json()
ResponseJson(resp) ==
  IF resp.body.t = "raw"
    THEN Throw(SyntaxError("Unexpected token in JSON"))
    ELSE Return(resp.body)

\* A fetch call: the request issued, and its outcome once resp is known.
Request(url, method, headers, body) ==
  [url |-> url, method |-> method, headers |-> headers, body |-> body]

\* ------------------------------------------------------- transport clients

\* A client that sends its request a second time when the first attempt fails.
TransportWithRetry(completion, fetches) ==
  [thrown |-> completion.thrown, val |-> completion.val,
   fetches |-> IF completion.thrown THEN fetches \o fetches ELSE fetches]

\* The result of a transport call: its completion and the requests it issued.
Transport(completion, fetches) ==
  [thrown |-> completion.thrown, val |-> completion.val, fetches |-> fetches]

ASANA_BASE_URL == Str("https://app.asana.com/api/1.0")

\* A client that reports the status text of a failed response, not its body.
asanaRequestStatusText(env, endpoint, method, body, resp) ==
  LET token == env["ASANA_TOKEN"]
      request == Request(<<ASANA_BASE_URL>> \o endpoint, method,
                         [Authorization |-> <<Str("Bearer "), token>>,
                          ContentType |-> "application/json"],
                         IF Truthy(body)
                           THEN JSONstringify(Obj([data |-> body]))
                           ELSE Undef)
  IN IF ~Truthy(token)
       THEN Transport(Throw(Error(<<Str("ASANA_TOKEN environment variable not set")>>)),
                      <<>>)
     ELSE IF resp.t # "response"
       THEN Transport(Throw(TypeError("fetch failed")), <<request>>)
     ELSE IF ~ResponseOk(resp)
       THEN Transport(Throw(Error(<<Str("Asana API error ("), Digits(resp.status),
                                    Str("): "), Str(resp.statusText)>>)),
                      <<request>>)
     ELSE LET json == ResponseJson(resp)
          IN IF json.thrown
               THEN Transport(json, <<request>>)
               ELSE Transport(Get(json.val, "data"), <<request>>)

asanaRequest(env, endpoint, method, body, resp) ==
  LET token == env["ASANA_TOKEN"]
      request == Request(<<ASANA_BASE_URL>> \o endpoint, method,
                         [Authorization |-> <<Str("Bearer "), token>>,
                          ContentType |-> "application/json"],
                         IF Truthy(body)
                           THEN JSONstringify(Obj([data |-> body]))
                           ELSE Undef)
  IN IF ~Truthy(token)
       THEN Transport(Throw(Error(<<Str("ASANA_TOKEN environment variable not set")>>)),
                      <<>>)
     ELSE IF resp.t # "response"
       THEN Transport(Throw(TypeError("fetch failed")), <<request>>)
     ELSE IF ~ResponseOk(resp)
       THEN Transport(Throw(Error(<<Str("Asana API error ("), Digits(resp.status),
                                    Str("): "), ResponseText(resp)>>)),
                      <<request>>)
     ELSE LET json == ResponseJson(resp)
          IN IF json.thrown
               THEN Transport(json, <<request>>)
               ELSE Transport(Get(json.val, "data"), <<request>>)

\* ----------------------------------------------------------- tool handlers

\* The envelope a handler returns from its try block; it has no isError key,
\* which reads as not set.
Success(text) ==
  [content |-> <<[type |-> "text", text |-> text]>>, isError |-> FALSE]

\* A catch block that reports the message of the error only.
CaughtMessage(error) ==
  [content |-> <<[type |-> "text",
                  text |-> Text(<<Str("Error: ")>> \o error.message)]>>,
   isError |-> TRUE]

\* A catch block that forgets the error flag.
CaughtUnflagged(error) ==
  [content |-> <<[type |-> "text",
                  text |-> Text(<<Str("Error: ")>> \o Interpolate(error))]>>,
   isError |-> FALSE]

\* The envelope a handler returns from its catch block.
Caught(error) ==
  [content |-> <<[type |-> "text",
                  text |-> Text(<<Str("Error: ")>> \o Interpolate(error))]>>,
   isError |-> TRUE]

\* A handler whose body is not wrapped: what it throws escapes.
NoTryCatch(body) == body

\* try { body } catch (error) { return Caught(error) }
TryCatch(body) == IF body.thrown THEN Return(Caught(body.val)) ELSE body

\* A call of a transport client: the client and the parameters it is given.
Call(client, parameters) == [client |-> client, parameters |-> parameters]

\* An awaited call that has not settled.
Unsettled == Transport(Throw(Error(<<Str("unsettled")>>)), <<>>)

\* What one run of a handler does: the completion of its try block, the
\* completion of the handler itself, and the transport calls it makes.
Handler(body, calls) ==
  [thrown |-> TryCatch(body).thrown, val |-> TryCatch(body).val,
   body |-> body, calls |-> calls]

\* `return value` after `await call`, when the awaited call can throw.
Then(call, value) == IF call.thrown THEN Throw(call.val) ELSE Return(value)

asana_list_projects(args, projects) ==
  LET workspace_gid == Arg(args, "workspace_gid")
      call == Call("asanaRequest",
                     <<<<Str("/workspaces/")>> \o Interpolate(workspace_gid)
                       \o <<Str("/projects?opt_fields=name,gid,current_status")>>,
                       "GET", Undef>>)
  IN Handler(Then(projects, Success(JSONstringify(projects.val))), <<call>>)

asana_list_workspaces(args, workspaces) ==
  LET call == Call("asanaRequest",
                 <<<<Str("/workspaces")>>, "GET", Undef>>)
  IN Handler(Then(workspaces, Success(JSONstringify(workspaces.val))), <<call>>)

asana_list_sections(args, sections) ==
  LET project_gid == Arg(args, "project_gid")
      call == Call("asanaRequest",
                     <<<<Str("/projects/")>> \o Interpolate(project_gid) \o <<Str("/sections")>>,
                       "GET", Undef>>)
  IN Handler(Then(sections, Success(JSONstringify(sections.val))), <<call>>)

\* The handler without its else branch: with neither identifier it requests
\* the project endpoint of an undefined project.
asana_list_tasks_unchecked(args, tasks) ==
  LET project_gid == Arg(args, "project_gid")
      section_gid == Arg(args, "section_gid")
      fields == Str("opt_fields=name,gid,completed,assignee.name,due_on,custom_fields")
      endpoint ==
        IF Truthy(section_gid)
          THEN <<Str("/sections/")>> \o Interpolate(section_gid) \o <<Str("/tasks?"), fields>>
          ELSE <<Str("/projects/")>> \o Interpolate(project_gid) \o <<Str("/tasks?"), fields>>
      call == Call("asanaRequest",
                     <<endpoint, "GET", Undef>>)
  IN Handler(Then(tasks, Success(JSONstringify(tasks.val))), <<call>>)

\* The handler with its two tests in the other order: project_gid first.
asana_list_tasks_project_first(args, tasks) ==
  LET project_gid == Arg(args, "project_gid")
      section_gid == Arg(args, "section_gid")
      fields == Str("opt_fields=name,gid,completed,assignee.name,due_on,custom_fields")
      endpoint ==
        IF Truthy(project_gid)
          THEN <<Str("/projects/")>> \o Interpolate(project_gid) \o <<Str("/tasks?"), fields>>
          ELSE <<Str("/sections/")>> \o Interpolate(section_gid) \o <<Str("/tasks?"), fields>>
      call == Call("asanaRequest", <<endpoint, "GET", Undef>>)
  IN IF ~Truthy(section_gid) /\ ~Truthy(project_gid)
       THEN Handler(Throw(Error(<<Str("Either project_gid or section_gid is required")>>)),
                    <<>>)
       ELSE Handler(Then(tasks, Success(JSONstringify(tasks.val))), <<call>>)

asana_list_tasks(args, tasks) ==
  LET project_gid == Arg(args, "project_gid")
      section_gid == Arg(args, "section_gid")
      fields == Str("opt_fields=name,gid,completed,assignee.name,due_on,custom_fields")
      endpoint ==
        IF Truthy(section_gid)
          THEN <<Str("/sections/")>> \o Interpolate(section_gid) \o <<Str("/tasks?"), fields>>
          ELSE <<Str("/projects/")>> \o Interpolate(project_gid) \o <<Str("/tasks?"), fields>>
      call == Call("asanaRequest",
                     <<endpoint, "GET", Undef>>)
  IN IF ~Truthy(section_gid) /\ ~Truthy(project_gid)
       THEN Handler(Throw(Error(<<Str("Either project_gid or section_gid is required")>>)),
                    <<>>)
       ELSE Handler(Then(tasks, Success(JSONstringify(tasks.val))), <<call>>)

asana_get_task(args, task) ==
  LET task_gid == Arg(args, "task_gid")
      call == Call("asanaRequest",
                     <<<<Str("/tasks/")>> \o Interpolate(task_gid)
                       \o <<Str("?opt_fields=name,notes,completed,assignee.name,due_on,custom_fields,memberships.section.name")>>,
                       "GET", Undef>>)
  IN Handler(Then(task, Success(JSONstringify(task.val))), <<call>>)

asana_update_custom_fields(args, task) ==
  LET task_gid == Arg(args, "task_gid")
      custom_fields == Arg(args, "custom_fields")
      call == Call("asanaRequest",
                     <<<<Str("/tasks/")>> \o Interpolate(task_gid), "PUT",
                       Obj([custom_fields |-> custom_fields])>>)
  IN Handler(Then(task, Success(Text(<<Str("Updated task custom fields:\n")>>
                                       \o Interpolate(JSONstringify(task.val))))),
             <<call>>)

asana_move_task(args, moved) ==
  LET task_gid == Arg(args, "task_gid")
      section_gid == Arg(args, "section_gid")
      call == Call("asanaRequest",
                     <<<<Str("/sections/")>> \o Interpolate(section_gid) \o <<Str("/addTask")>>,
                       "POST", Obj([task |-> task_gid])>>)
  IN Handler(Then(moved, Success(Text(<<Str("Task ")>> \o Interpolate(task_gid)
                                        \o <<Str(" moved to section ")>>
                                        \o Interpolate(section_gid)))),
             <<call>>)

\* An update that tests the fields with if (args.k).
UpdatesIfTruthy(args, keys) ==
  Obj([k \in {k \in keys : Truthy(Arg(args, k))} |-> Arg(args, k)])

\* const updates = {}; if (args.k !== undefined) updates.k = args.k, for k in keys
Updates(args, keys) ==
  Obj([k \in {k \in keys : Arg(args, k).t # "undefined"} |-> Arg(args, k)])

asana_update_task(args, task) ==
  LET task_gid == Arg(args, "task_gid")
      updates == Updates(args, {"name", "notes", "due_on", "completed"})
      call == Call("asanaRequest",
                     <<<<Str("/tasks/")>> \o Interpolate(task_gid), "PUT",
                       updates>>)
  IN Handler(Then(task, Success(Text(<<Str("Updated task:\n")>>
                                       \o Interpolate(JSONstringify(task.val))))),
             <<call>>)

asana_add_comment(args, story) ==
  LET task_gid == Arg(args, "task_gid")
      text == Arg(args, "text")
      call == Call("asanaRequest",
                     <<<<Str("/tasks/")>> \o Interpolate(task_gid) \o <<Str("/stories")>>,
                       "POST", Obj([text |-> text])>>)
  IN Handler(Then(story, Success(Text(<<Str("Comment added:\n")>>
                                        \o Interpolate(JSONstringify(story.val))))),
             <<call>>)

\* ------------------------------------------------------------------ Slack

SLACK_BASE_URL == Str("https://slack.com/api")

\* A client that does not look at the ok field of the payload.
slackRequestUnchecked(env, method, body, resp) ==
  LET token == env["SLACK_TOKEN"]
      request == Request(<<SLACK_BASE_URL, Str("/"), Str(method)>>, "POST",
                         [Authorization |-> <<Str("Bearer "), token>>,
                          ContentType |-> "application/json"],
                         IF Truthy(body) THEN JSONstringify(body) ELSE Undef)
  IN IF ~Truthy(token)
       THEN Transport(Throw(Error(<<Str("SLACK_TOKEN environment variable not set")>>)),
                      <<>>)
     ELSE IF resp.t # "response"
       THEN Transport(Throw(TypeError("fetch failed")), <<request>>)
     ELSE IF ~ResponseOk(resp)
       THEN Transport(Throw(Error(<<Str("Slack HTTP error ("), Digits(resp.status),
                                    Str("): "), Str(resp.statusText)>>)),
                      <<request>>)
     ELSE LET json == ResponseJson(resp)
          IN IF json.thrown THEN Transport(json, <<request>>)
             ELSE Transport(json, <<request>>)

\* A client that issues its request before it looks at the token.
slackRequestTokenLast(env, method, body, resp) ==
  LET token == env["SLACK_TOKEN"]
      request == Request(<<SLACK_BASE_URL, Str("/"), Str(method)>>, "POST",
                         [Authorization |-> <<Str("Bearer "), token>>,
                          ContentType |-> "application/json"],
                         IF Truthy(body) THEN JSONstringify(body) ELSE Undef)
  IN IF resp.t # "response"
       THEN Transport(Throw(TypeError("fetch failed")), <<request>>)
     ELSE IF ~Truthy(token)
       THEN Transport(Throw(Error(<<Str("SLACK_TOKEN environment variable not set")>>)),
                      <<request>>)
     ELSE IF ~ResponseOk(resp)
       THEN Transport(Throw(Error(<<Str("Slack HTTP error ("), Digits(resp.status),
                                    Str("): "), Str(resp.statusText)>>)),
                      <<request>>)
     ELSE LET json == ResponseJson(resp)
          IN IF json.thrown THEN Transport(json, <<request>>)
             ELSE IF Get(json.val, "ok").thrown
               THEN Transport(Get(json.val, "ok"), <<request>>)
             ELSE IF ~Truthy(Get(json.val, "ok").val)
               THEN Transport(Throw(Error(<<Str("Slack API error: ")>>
                                            \o Interpolate(Get(json.val, "error").val))),
                              <<request>>)
             ELSE Transport(json, <<request>>)

slackRequest(env, method, body, resp) ==
  LET token == env["SLACK_TOKEN"]
      request == Request(<<SLACK_BASE_URL, Str("/"), Str(method)>>, "POST",
                         [Authorization |-> <<Str("Bearer "), token>>,
                          ContentType |-> "application/json"],
                         IF Truthy(body) THEN JSONstringify(body) ELSE Undef)
  IN IF ~Truthy(token)
       THEN Transport(Throw(Error(<<Str("SLACK_TOKEN environment variable not set")>>)),
                      <<>>)
     ELSE IF resp.t # "response"
       THEN Transport(Throw(TypeError("fetch failed")), <<request>>)
     ELSE IF ~ResponseOk(resp)
       THEN Transport(Throw(Error(<<Str("Slack HTTP error ("), Digits(resp.status),
                                    Str("): "), Str(resp.statusText)>>)),
                      <<request>>)
     ELSE LET json == ResponseJson(resp)
          IN IF json.thrown THEN Transport(json, <<request>>)
             ELSE IF Get(json.val, "ok").thrown
               THEN Transport(Get(json.val, "ok"), <<request>>)
             ELSE IF ~Truthy(Get(json.val, "ok").val)
               THEN Transport(Throw(Error(<<Str("Slack API error: ")>>
                                            \o Interpolate(Get(json.val, "error").val))),
                              <<request>>)
             ELSE Transport(json, <<request>>)

\* A callback that keeps the whole channel record.
ChannelUnprojected(ch) == Return(ch)

\* (ch) => ({ id: ch.id, ..., topic: ch.topic?.value, ... })
ChannelProjection(ch) ==
  IF Get(ch, "id").thrown THEN Get(ch, "id")
  ELSE Return(Obj([id |-> Get(ch, "id").val,
                   name |-> Get(ch, "name").val,
                   is_private |-> Get(ch, "is_private").val,
                   topic |-> GetOpt(Get(ch, "topic").val, "value"),
                   purpose |-> GetOpt(Get(ch, "purpose").val, "value"),
                   num_members |-> Get(ch, "num_members").val]))

\* (msg) => ({ user: msg.user, text: msg.text, ts: msg.ts, ... })
MessageProjection(msg) ==
  IF Get(msg, "user").thrown THEN Get(msg, "user")
  ELSE Return(Obj([user |-> Get(msg, "user").val,
                   text |-> Get(msg, "text").val,
                   ts |-> Get(msg, "ts").val,
                   thread_ts |-> Get(msg, "thread_ts").val,
                   reply_count |-> Get(msg, "reply_count").val]))

\* (e) => e.message
ErrorMessage(e) == Get(e, "message")

\* The callbacks handed to map, by name.
Apply(f, x) ==
  CASE f = "ChannelProjection" -> ChannelProjection(x)
    [] f = "MessageProjection" -> MessageProjection(x)
    [] f = "ErrorMessage" -> ErrorMessage(x)

\* array.map(f): calling map on a value that is no array throws, and so does
\* f on the first element it cannot read.
Map(array, f) ==
  IF array.t # "array"
    THEN Throw(TypeError("map is not a function"))
  ELSE IF \E i \in DOMAIN array.v : Apply(f, array.v[i]).thrown
    THEN Apply(f, array.v[CHOOSE i \in DOMAIN array.v :
                            /\ Apply(f, array.v[i]).thrown
                            /\ \A j \in 1..(i - 1) : ~Apply(f, array.v[j]).thrown])
  ELSE Return(Arr([i \in DOMAIN array.v |-> Apply(f, array.v[i]).val]))

\* JSON.stringify(value) of a value whose computation can throw
Stringified(value) == IF value.thrown THEN value ELSE Return(JSONstringify(value.val))

\* `return Success(text)` with text computed from the value of an awaited
\* call, where both the call and the computation can throw.
ThenDo(call, text) ==
  IF call.thrown THEN Throw(call.val)
  ELSE IF text.thrown THEN text
  ELSE Return(Success(text.val))

slack_list_channels(args, json) ==
  LET params == Updates(args, {"limit", "types"})
      call == Call("slackRequest",
                     <<"conversations.list", params>>)
      channels == Map(Get(json.val, "channels").val, "ChannelProjection")
  IN Handler(ThenDo(json, Stringified(channels)), <<call>>)

\* `${prefix}${json.message.ts})`
SentText(j, prefix) ==
  LET msg == Get(j, "message").val
  IN IF Get(msg, "ts").thrown THEN Get(msg, "ts")
     ELSE Return(Text(<<Str(prefix)>> \o Interpolate(Get(msg, "ts").val) \o <<Str(")")>>))

slack_send_message(args, json) ==
  LET call == Call("slackRequest",
                 <<"chat.postMessage",
                   Obj([channel |-> Arg(args, "channel"),
                   text |-> Arg(args, "text")])>>)
  IN Handler(ThenDo(json, SentText(json.val, "Message sent (ts: ")), <<call>>)

slack_read_messages(args, json) ==
  LET extra == Updates(args, {"limit", "oldest"})
      params == Obj([k \in {"channel"} \cup DOMAIN extra.v |->
                       IF k = "channel" THEN Arg(args, "channel") ELSE extra.v[k]])
      call == Call("slackRequest",
                     <<"conversations.history", params>>)
      messages == Map(Get(json.val, "messages").val, "MessageProjection")
  IN Handler(ThenDo(json, Stringified(messages)), <<call>>)

slack_reply_to_thread(args, json) ==
  LET call == Call("slackRequest",
                 <<"chat.postMessage",
                   Obj([channel |-> Arg(args, "channel"),
                   thread_ts |-> Arg(args, "thread_ts"),
                   text |-> Arg(args, "text")])>>)
  IN Handler(ThenDo(json, SentText(json.val, "Reply sent (ts: ")), <<call>>)

\* ----------------------------------------------------------------- GitHub

GITHUB_GRAPHQL_URL == Str("https://api.github.com/graphql")
GITHUB_REST_URL == Str("https://api.github.com")

\* array.join(", ") of the texts in parts
RECURSIVE Join(_)
Join(parts) ==
  IF Len(parts) = 0 THEN <<>>
  ELSE IF Len(parts) = 1 THEN Interpolate(parts[1])
  ELSE Interpolate(parts[1]) \o <<Str(", ")>> \o Join(Tail(parts))

\* A client that tests the errors list with if (json.errors?.length).
githubGraphQLIfAnyError(env, query, variables, resp) ==
  LET token == env["GITHUB_TOKEN"]
      request == Request(<<GITHUB_GRAPHQL_URL>>, "POST",
                         [Authorization |-> <<Str("Bearer "), token>>,
                          ContentType |-> "application/json"],
                         JSONstringify(Obj([query |-> Text(query),
                                            variables |-> variables])))
  IN IF ~Truthy(token)
       THEN Transport(Throw(Error(<<Str("GITHUB_TOKEN environment variable not set")>>)),
                      <<>>)
     ELSE IF resp.t # "response"
       THEN Transport(Throw(TypeError("fetch failed")), <<request>>)
     ELSE IF ~ResponseOk(resp)
       THEN Transport(Throw(Error(<<Str("GitHub GraphQL HTTP error ("),
                                    Digits(resp.status), Str("): "),
                                    ResponseText(resp)>>)),
                      <<request>>)
     ELSE LET json == ResponseJson(resp)
              errors == Get(json.val, "errors")
              messages == Map(errors.val, "ErrorMessage")
          IN IF json.thrown THEN Transport(json, <<request>>)
             ELSE IF errors.thrown THEN Transport(errors, <<request>>)
             ELSE IF errors.val.t = "array" /\ Len(errors.val.v) > 0
               THEN IF messages.thrown
                      THEN Transport(messages, <<request>>)
                      ELSE Transport(Throw(Error(<<Str("GitHub GraphQL error: ")>>
                                                   \o Join(messages.val.v))),
                                     <<request>>)
             ELSE Transport(Get(json.val, "data"), <<request>>)

githubGraphQL(env, query, variables, resp) ==
  LET token == env["GITHUB_TOKEN"]
      request == Request(<<GITHUB_GRAPHQL_URL>>, "POST",
                         [Authorization |-> <<Str("Bearer "), token>>,
                          ContentType |-> "application/json"],
                         JSONstringify(Obj([query |-> Text(query),
                                            variables |-> variables])))
  IN IF ~Truthy(token)
       THEN Transport(Throw(Error(<<Str("GITHUB_TOKEN environment variable not set")>>)),
                      <<>>)
     ELSE IF resp.t # "response"
       THEN Transport(Throw(TypeError("fetch failed")), <<request>>)
     ELSE IF ~ResponseOk(resp)
       THEN Transport(Throw(Error(<<Str("GitHub GraphQL HTTP error ("),
                                    Digits(resp.status), Str("): "),
                                    ResponseText(resp)>>)),
                      <<request>>)
     ELSE LET json == ResponseJson(resp)
              errors == Get(json.val, "errors")
              messages == Map(errors.val, "ErrorMessage")
          IN IF json.thrown THEN Transport(json, <<request>>)
             ELSE IF errors.thrown THEN Transport(errors, <<request>>)
             ELSE IF Truthy(errors.val)
               THEN IF messages.thrown
                      THEN Transport(messages, <<request>>)
                      ELSE Transport(Throw(Error(<<Str("GitHub GraphQL error: ")>>
                                                   \o Join(messages.val.v))),
                                     <<request>>)
             ELSE Transport(Get(json.val, "data"), <<request>>)

githubRest(env, endpoint, method, body, resp) ==
  LET token == env["GITHUB_TOKEN"]
      request == Request(<<GITHUB_REST_URL>> \o endpoint, method,
                         [Authorization |-> <<Str("Bearer "), token>>,
                          Accept |-> "application/vnd.github+json",
                          XGitHubApiVersion |-> "2022-11-28",
                          ContentType |-> "application/json"],
                         IF Truthy(body) THEN JSONstringify(body) ELSE Undef)
  IN IF ~Truthy(token)
       THEN Transport(Throw(Error(<<Str("GITHUB_TOKEN environment variable not set")>>)),
                      <<>>)
     ELSE IF resp.t # "response"
       THEN Transport(Throw(TypeError("fetch failed")), <<request>>)
     ELSE IF ~ResponseOk(resp)
       THEN Transport(Throw(Error(<<Str("GitHub REST API error ("),
                                    Digits(resp.status), Str("): "),
                                    ResponseText(resp)>>)),
                      <<request>>)
     ELSE IF resp.status = 204
       THEN Transport(Return(Null), <<request>>)
     ELSE Transport(ResponseJson(resp), <<request>>)

\* x.k1.k2...: the first read of a property of undefined or null throws.
RECURSIVE GetPath(_, _)
GetPath(x, keys) ==
  IF Len(keys) = 0 THEN Return(x)
  ELSE IF Get(x, Head(keys)).thrown THEN Get(x, Head(keys))
  ELSE GetPath(Get(x, Head(keys)).val, Tail(keys))

github_list_projects(args, data) ==
  LET owner == Arg(args, "owner")
      owner_type == Arg(args, "owner_type")
      count == Coalesce(Arg(args, "first"), Num(20))
      query == <<Str("query($owner: String!, $first: Int!) { ")>>
                 \o Interpolate(owner_type)
                 \o <<Str("(login: $owner) { projectsV2(first: $first) { nodes { id title number shortDescription closed url } } } }")>>
      call == Call("githubGraphQL",
                     <<query, Obj([owner |-> owner, first |-> count])>>)
      projects == GetPath(data.val, <<owner_type.v, "projectsV2", "nodes">>)
  IN Handler(ThenDo(data, Stringified(projects)), <<call>>)

github_get_project_fields(args, data) ==
  LET project_id == Arg(args, "project_id")
      query == <<Str("query($projectId: ID!) { node(id: $projectId) { ... on ProjectV2 { fields(first: 50) { nodes { ... } } } } }")>>
      call == Call("githubGraphQL",
                     <<query, Obj([projectId |-> project_id])>>)
      fields == GetPath(data.val, <<"node", "fields", "nodes">>)
  IN Handler(ThenDo(data, Stringified(fields)), <<call>>)

\* A test that forgets which field the value belongs to.
NameIs(fv, status_filter) == Get(fv, "name").val = status_filter

\* (fv) => fv.field?.name === "Status" && fv.name === status_filter
StatusIs(fv, status_filter) ==
  /\ GetOpt(Get(fv, "field").val, "name") = Str("Status")
  /\ Get(fv, "name").val = status_filter

\* (item) => item.fieldValues.nodes.some(StatusIs): some stops at the first
\* field value that matches, and throws at one it cannot read.
HasStatus(item, status_filter) ==
  LET fieldValues == GetPath(item, <<"fieldValues", "nodes">>)
      fvs == fieldValues.val.v
      unreadable(i) == fvs[i].t \in {"undefined", "null"}
      stops == {i \in DOMAIN fvs : unreadable(i) \/ StatusIs(fvs[i], status_filter)}
      first == CHOOSE i \in stops : \A j \in stops : i <= j
  IN IF fieldValues.thrown THEN fieldValues
     ELSE IF fieldValues.val.t # "array"
       THEN Throw(TypeError("some is not a function"))
     ELSE IF stops = {} THEN Return(Bool(FALSE))
     ELSE IF unreadable(first) THEN Get(fvs[first], "field")
     ELSE Return(Bool(TRUE))

\* array.filter((item) => ...): calling filter on a value that is no array
\* throws, and so does the callback on the first item it cannot read.
Filter(array, status_filter) ==
  IF array.t # "array"
    THEN Throw(TypeError("filter is not a function"))
  ELSE IF \E i \in DOMAIN array.v : HasStatus(array.v[i], status_filter).thrown
    THEN HasStatus(array.v[CHOOSE i \in DOMAIN array.v :
                             /\ HasStatus(array.v[i], status_filter).thrown
                             /\ \A j \in 1..(i - 1) :
                                  ~HasStatus(array.v[j], status_filter).thrown],
                   status_filter)
  ELSE Return(Arr(SelectSeq(array.v,
                            LAMBDA item : HasStatus(item, status_filter).val.v)))

github_list_project_items(args, data) ==
  LET project_id == Arg(args, "project_id")
      after == Arg(args, "after")
      status_filter == Arg(args, "status_filter")
      count == Coalesce(Arg(args, "first"), Num(50))
      query == <<Str("query($projectId: ID!, $first: Int!, $after: String) { node(id: $projectId) { ... on ProjectV2 { items(first: $first, after: $after) { pageInfo { hasNextPage endCursor } nodes { id fieldValues(first: 20) { nodes { ... } } content { ... } } } } } }")>>
      call == Call("githubGraphQL",
                     <<query,
                       Obj([projectId |-> project_id, first |-> count,
                       after |-> Coalesce(after, Null)])>>)
      items == GetPath(data.val, <<"node", "items">>)
      nodes == Get(items.val, "nodes")
      filtered == IF Truthy(status_filter)
                    THEN Filter(nodes.val, status_filter)
                    ELSE nodes
      text ==
        IF items.thrown THEN items
        ELSE IF nodes.thrown THEN nodes
        ELSE IF filtered.thrown THEN filtered
        ELSE Return(JSONstringify(Obj([pageInfo |-> Get(items.val, "pageInfo").val,
                                       items |-> filtered.val])))
  IN Handler(ThenDo(data, text), <<call>>)

github_get_project_item(args, data) ==
  LET item_id == Arg(args, "item_id")
      query == <<Str("query($itemId: ID!) { node(id: $itemId) { ... on ProjectV2Item { id fieldValues(first: 20) { nodes { ... } } content { ... } } } }")>>
      call == Call("githubGraphQL",
                     <<query, Obj([itemId |-> item_id])>>)
  IN Handler(ThenDo(data, Stringified(Get(data.val, "node"))), <<call>>)

github_update_project_item_field(args, data) ==
  LET mutation == <<Str("mutation($projectId: ID!, $itemId: ID!, $fieldId: ID!, $value: ProjectV2FieldValue!) { updateProjectV2ItemFieldValue(input: { projectId: $projectId itemId: $itemId fieldId: $fieldId value: $value }) { projectV2Item { id } } }")>>
      call == Call("githubGraphQL",
                     <<mutation,
                       Obj([projectId |-> Arg(args, "project_id"),
                       itemId |-> Arg(args, "item_id"),
                       fieldId |-> Arg(args, "field_id"),
                       value |-> Arg(args, "value")])>>)
  IN Handler(Then(data, Success(JSONstringify(data.val))), <<call>>)

\* The two mutations of github_add_project_item.
AddItemByIdMutation ==
  <<Str("mutation($projectId: ID!, $contentId: ID!) { addProjectV2ItemById(input: { projectId: $projectId, contentId: $contentId }) { item { id } } }")>>
AddDraftIssueMutation ==
  <<Str("mutation($projectId: ID!, $title: String!, $body: String) { addProjectV2DraftIssue(input: { projectId: $projectId, title: $title, body: $body }) { projectItem { id } } }")>>

\* The handler with its two tests in the other order: draft_title first.
github_add_project_item_draft_first(args, data) ==
  LET project_id == Arg(args, "project_id")
      content_id == Arg(args, "content_id")
      draft_title == Arg(args, "draft_title")
      draft_body == Arg(args, "draft_body")
      byIdCall == Call("githubGraphQL",
                     <<AddItemByIdMutation,
                       Obj([projectId |-> project_id, contentId |-> content_id])>>)
      draftCall == Call("githubGraphQL",
                     <<AddDraftIssueMutation,
                       Obj([projectId |-> project_id, title |-> draft_title,
                       body |-> Coalesce(draft_body, Null)])>>)
  IN IF Truthy(draft_title)
       THEN Handler(Then(data, Success(JSONstringify(data.val))), <<draftCall>>)
     ELSE IF Truthy(content_id)
       THEN Handler(Then(data, Success(JSONstringify(data.val))), <<byIdCall>>)
     ELSE Handler(Throw(Error(<<Str("Either content_id (for existing issue/PR) or draft_title (for draft issue) is required")>>)),
                  <<>>)

github_add_project_item(args, data) ==
  LET project_id == Arg(args, "project_id")
      content_id == Arg(args, "content_id")
      draft_title == Arg(args, "draft_title")
      draft_body == Arg(args, "draft_body")
      byIdCall == Call("githubGraphQL",
                     <<AddItemByIdMutation,
                       Obj([projectId |-> project_id, contentId |-> content_id])>>)
      draftCall == Call("githubGraphQL",
                     <<AddDraftIssueMutation,
                       Obj([projectId |-> project_id, title |-> draft_title,
                       body |-> Coalesce(draft_body, Null)])>>)
  IN IF Truthy(content_id)
       THEN Handler(Then(data, Success(JSONstringify(data.val))), <<byIdCall>>)
     ELSE IF Truthy(draft_title)
       THEN Handler(Then(data, Success(JSONstringify(data.val))), <<draftCall>>)
     ELSE Handler(Throw(Error(<<Str("Either content_id (for existing issue/PR) or draft_title (for draft issue) is required")>>)),
                  <<>>)

\* `/repos/${owner}/${repo}/issues/${issue_number}${suffix}`
IssuePath(args, suffix) ==
  <<Str("/repos/")>> \o Interpolate(Arg(args, "owner")) \o <<Str("/")>>
    \o Interpolate(Arg(args, "repo")) \o <<Str("/issues/")>>
    \o Interpolate(Arg(args, "issue_number")) \o <<Str(suffix)>>

github_list_issue_comments(args, comments) ==
  LET call == Call("githubRest",
                 <<IssuePath(args, "/comments"), "GET", Undef>>)
  IN Handler(Then(comments, Success(JSONstringify(comments.val))), <<call>>)

github_add_issue_comment(args, comment) ==
  LET call == Call("githubRest",
                 <<IssuePath(args, "/comments"), "POST",
                   Obj([body |-> Arg(args, "body")])>>)
  IN Handler(Then(comment, Success(JSONstringify(comment.val))), <<call>>)

github_list_sub_issues(args, subIssues) ==
  LET call == Call("githubRest",
                 <<IssuePath(args, "/sub_issues"), "GET", Undef>>)
  IN Handler(Then(subIssues, Success(JSONstringify(subIssues.val))), <<call>>)

github_update_issue(args, issue) ==
  LET updates == Updates(args, {"title", "body", "state", "labels", "assignees"})
      call == Call("githubRest",
                     <<IssuePath(args, ""), "PATCH", updates>>)
  IN Handler(Then(issue, Success(JSONstringify(issue.val))), <<call>>)

\* ------------------------------------------------------------ registration

\* The names of the server.tool calls of each register function, in order.
registerAsanaTools ==
  <<"asana_list_projects", "asana_list_workspaces", "asana_list_sections",
    "asana_list_tasks", "asana_get_task", "asana_update_custom_fields",
    "asana_move_task", "asana_update_task", "asana_add_comment">>

\* A registration that registers slack_send_message a second time, in place
\* of slack_reply_to_thread.
registerSlackToolsTwice ==
  <<"slack_list_channels", "slack_send_message", "slack_read_messages",
    "slack_send_message">>

registerSlackTools ==
  <<"slack_list_channels", "slack_send_message", "slack_read_messages",
    "slack_reply_to_thread">>

registerGithubProjectsTools ==
  <<"github_list_projects", "github_get_project_fields", "github_list_project_items",
    "github_get_project_item", "github_update_project_item_field",
    "github_add_project_item", "github_list_issue_comments",
    "github_add_issue_comment", "github_list_sub_issues", "github_update_issue">>

\* Registration that tests the credentials with !== undefined.
registerToolsIfDefined(e) ==
  (IF e["ASANA_TOKEN"].t # "undefined" THEN registerAsanaTools ELSE <<>>)
    \o (IF e["SLACK_TOKEN"].t # "undefined" THEN registerSlackTools ELSE <<>>)
    \o (IF e["GITHUB_TOKEN"].t # "undefined" THEN registerGithubProjectsTools ELSE <<>>)

\* if (process.env.X_TOKEN) { registerXTools(server); }
registerTools(e) ==
  (IF Truthy(e["ASANA_TOKEN"]) THEN registerAsanaTools ELSE <<>>)
    \o (IF Truthy(e["SLACK_TOKEN"]) THEN registerSlackTools ELSE <<>>)
    \o (IF Truthy(e["GITHUB_TOKEN"]) THEN registerGithubProjectsTools ELSE <<>>)

Range(seq) == {seq[i] : i \in DOMAIN seq}

AllTools ==
  Range(registerAsanaTools) \cup Range(registerSlackTools)
    \cup Range(registerGithubProjectsTools)

\* The credential that gates a tool.
IntegrationOf(tool) ==
  IF tool \in Range(registerAsanaTools) THEN "ASANA_TOKEN"
  ELSE IF tool \in Range(registerSlackTools) THEN "SLACK_TOKEN"
  ELSE "GITHUB_TOKEN"

\* The callback registered under a tool name, given the outcome of the
\* transport call it awaits.
Run(tool, args, awaited) ==
  CASE tool = "asana_list_projects" -> asana_list_projects(args, awaited)
    [] tool = "asana_list_workspaces" -> asana_list_workspaces(args, awaited)
    [] tool = "asana_list_sections" -> asana_list_sections(args, awaited)
    [] tool = "asana_list_tasks" -> asana_list_tasks(args, awaited)
    [] tool = "asana_get_task" -> asana_get_task(args, awaited)
    [] tool = "asana_update_custom_fields" -> asana_update_custom_fields(args, awaited)
    [] tool = "asana_move_task" -> asana_move_task(args, awaited)
    [] tool = "asana_update_task" -> asana_update_task(args, awaited)
    [] tool = "asana_add_comment" -> asana_add_comment(args, awaited)
    [] tool = "slack_list_channels" -> slack_list_channels(args, awaited)
    [] tool = "slack_send_message" -> slack_send_message(args, awaited)
    [] tool = "slack_read_messages" -> slack_read_messages(args, awaited)
    [] tool = "slack_reply_to_thread" -> slack_reply_to_thread(args, awaited)
    [] tool = "github_list_projects" -> github_list_projects(args, awaited)
    [] tool = "github_get_project_fields" -> github_get_project_fields(args, awaited)
    [] tool = "github_list_project_items" -> github_list_project_items(args, awaited)
    [] tool = "github_get_project_item" -> github_get_project_item(args, awaited)
    [] tool = "github_update_project_item_field" ->
         github_update_project_item_field(args, awaited)
    [] tool = "github_add_project_item" -> github_add_project_item(args, awaited)
    [] tool = "github_list_issue_comments" -> github_list_issue_comments(args, awaited)
    [] tool = "github_add_issue_comment" -> github_add_issue_comment(args, awaited)
    [] tool = "github_list_sub_issues" -> github_list_sub_issues(args, awaited)
    [] tool = "github_update_issue" -> github_update_issue(args, awaited)

\* The transport call with the response resp to the request it issues.
Settle(call, e, resp) ==
  CASE call.client = "asanaRequest" ->
         asanaRequest(e, call.parameters[1], call.parameters[2], call.parameters[3], resp)
    [] call.client = "slackRequest" ->
         slackRequest(e, call.parameters[1], call.parameters[2], resp)
    [] call.client = "githubGraphQL" ->
         githubGraphQL(e, call.parameters[1], call.parameters[2], resp)
    [] call.client = "githubRest" ->
         githubRest(e, call.parameters[1], call.parameters[2], call.parameters[3], resp)

\* The transport calls of a handler, each with the response resp.
Settled(calls, e, resp) == [i \in DOMAIN calls |-> Settle(calls[i], e, resp)]

\* What the handler awaits: its transport call, if it makes one.
Awaited(settled) == IF settled = <<>> THEN Unsettled ELSE settled[1]

\* --------------------------------------------------- schema-valid arguments

\* The objects with every key of keys except possibly those of optional, the
\* value under key k drawn from vals[k].
RECURSIVE ObjSet(_, _, _)
ObjSet(keys, optional, vals) ==
  IF keys = {} THEN {NoKeys}
  ELSE LET k == CHOOSE x \in keys : TRUE
           rest == ObjSet(keys \ {k}, optional, vals)
       IN {f @@ (k :> v) : f \in rest, v \in vals[k]}
            \cup (IF k \in optional THEN rest ELSE {})

Id == {Str("id1")}
OptString == {Str(""), Str("x")}
OptNumber == {Num(0), Num(5)}

\* The arguments the declared schema of a tool accepts (a sample of them).
ArgsOf(tool) ==
  CASE tool = "asana_list_projects" -> ObjSet({"workspace_gid"}, {}, [workspace_gid |-> Id])
    [] tool = "asana_list_workspaces" -> {NoKeys}
    [] tool = "asana_list_sections" -> ObjSet({"project_gid"}, {}, [project_gid |-> Id])
    [] tool = "asana_list_tasks" ->
         ObjSet({"project_gid", "section_gid"}, {"project_gid", "section_gid"},
                [project_gid |-> OptString, section_gid |-> OptString])
    [] tool = "asana_get_task" -> ObjSet({"task_gid"}, {}, [task_gid |-> Id])
    [] tool = "asana_update_custom_fields" ->
         ObjSet({"task_gid", "custom_fields"}, {},
                [task_gid |-> Id, custom_fields |-> {Obj([f1 |-> Num(5)])}])
    [] tool = "asana_move_task" ->
         ObjSet({"task_gid", "section_gid"}, {}, [task_gid |-> Id, section_gid |-> Id])
    [] tool = "asana_update_task" ->
         ObjSet({"task_gid", "name", "notes", "due_on", "completed"},
                {"name", "notes", "due_on", "completed"},
                [task_gid |-> Id, name |-> OptString, notes |-> OptString,
                 due_on |-> {Str("2026-01-31")},
                 completed |-> {Bool(FALSE), Bool(TRUE)}])
    [] tool = "asana_add_comment" ->
         ObjSet({"task_gid", "text"}, {}, [task_gid |-> Id, text |-> OptString])
    [] tool = "slack_list_channels" ->
         ObjSet({"limit", "types"}, {"limit", "types"},
                [limit |-> OptNumber, types |-> {Str("public_channel")}])
    [] tool \in {"slack_send_message"} ->
         ObjSet({"channel", "text"}, {}, [channel |-> Id, text |-> OptString])
    [] tool = "slack_read_messages" ->
         ObjSet({"channel", "limit", "oldest"}, {"limit", "oldest"},
                [channel |-> Id, limit |-> OptNumber, oldest |-> {Str("1700000000")}])
    [] tool = "slack_reply_to_thread" ->
         ObjSet({"channel", "thread_ts", "text"}, {},
                [channel |-> Id, thread_ts |-> {Str("1700000000.000100")},
                 text |-> OptString])
    [] tool = "github_list_projects" ->
         ObjSet({"owner", "owner_type", "first"}, {"first"},
                [owner |-> Id, owner_type |-> {Str("user"), Str("organization")},
                 first |-> OptNumber])
    [] tool = "github_get_project_fields" ->
         ObjSet({"project_id"}, {}, [project_id |-> Id])
    [] tool = "github_list_project_items" ->
         ObjSet({"project_id", "first", "after", "status_filter"},
                {"first", "after", "status_filter"},
                [project_id |-> Id, first |-> OptNumber, after |-> {Str("cursor1")},
                 status_filter |-> {Str(""), Str("Done")}])
    [] tool = "github_get_project_item" -> ObjSet({"item_id"}, {}, [item_id |-> Id])
    [] tool = "github_update_project_item_field" ->
         ObjSet({"project_id", "item_id", "field_id", "value"}, {},
                [project_id |-> Id, item_id |-> Id, field_id |-> Id,
                 value |-> {Obj([singleSelectOptionId |-> Str("opt1")]), Obj(NoKeys)}])
    [] tool = "github_add_project_item" ->
         ObjSet({"project_id", "content_id", "draft_title", "draft_body"},
                {"content_id", "draft_title", "draft_body"},
                [project_id |-> Id, content_id |-> OptString,
                 draft_title |-> OptString, draft_body |-> OptString])
    [] tool \in {"github_list_issue_comments", "github_list_sub_issues"} ->
         ObjSet({"owner", "repo", "issue_number"}, {},
                [owner |-> Id, repo |-> Id, issue_number |-> {Num(7)}])
    [] tool = "github_add_issue_comment" ->
         ObjSet({"owner", "repo", "issue_number", "body"}, {},
                [owner |-> Id, repo |-> Id, issue_number |-> {Num(7)},
                 body |-> OptString])
    [] tool = "github_update_issue" ->
         ObjSet({"owner", "repo", "issue_number", "title", "body", "state", "labels",
                 "assignees"},
                {"title", "body", "state", "labels", "assignees"},
                [owner |-> Id, repo |-> Id, issue_number |-> {Num(7)},
                 title |-> OptString, body |-> OptString,
                 state |-> {Str("open"), Str("closed")},
                 labels |-> {Arr(<<>>), Arr(<<Str("bug")>>)},
                 assignees |-> {Arr(<<Str("octocat")>>)}])

\* ------------------------------------------- responses of the external APIs

\* The pages of at most MaxRecords records drawn from kinds.
Pages(kinds) == UNION {[1..n -> kinds] : n \in 0..MaxRecords}

FailedResponses ==
  {NetworkFailure,
   Response(500, "Internal Server Error", Raw("upstream boom")),
   Response(404, "Not Found", Obj([message |-> Str("Not Found")])),
   Response(200, "OK", Raw("<html>")),
   Response(200, "OK", Null)}

AsanaKinds ==
  {Obj([gid |-> Str("1"), name |-> Str("n")]),
   Obj([gid |-> Str("2"), name |-> Str("m"), resource_type |-> Str("section"),
        created_at |-> Str("2026-01-31T00:00:00.000Z")])}

AsanaResponses ==
  FailedResponses
    \cup {Response(200, "OK", Obj(NoKeys))}
    \cup {Response(200, "OK", Obj([data |-> Arr(page)])) : page \in Pages(AsanaKinds)}

ChannelKinds ==
  {Obj([id |-> Str("C1"), name |-> Str("general"), is_private |-> Bool(FALSE),
        topic |-> Obj([value |-> Str("t"), creator |-> Str("U1")]),
        purpose |-> Obj([value |-> Str("p")]), num_members |-> Num(3),
        creator |-> Str("U1")]),
   Obj([id |-> Str("C2"), name |-> Str("dm")]),
   Null}

MessageKinds ==
  {Obj([user |-> Str("U1"), text |-> Str("hi"), ts |-> Str("1.1"),
        thread_ts |-> Str("1.0"), reply_count |-> Num(2), type |-> Str("message")]),
   Obj([text |-> Str("bot"), ts |-> Str("1.2"), bot_id |-> Str("B1")])}

SlackErrors == {"channel_not_found", "invalid_auth"}

SlackResponses(tool) ==
  FailedResponses
    \cup {Response(200, "OK", Obj([ok |-> Bool(FALSE), error |-> Str(E)])) :
            E \in SlackErrors}
    \cup {Response(200, "OK", Obj([ok |-> Bool(FALSE)])),
          Response(200, "OK", Obj([ok |-> Bool(TRUE)]))}
    \cup (CASE tool = "slack_list_channels" ->
                 {Response(200, "OK", Obj([ok |-> Bool(TRUE), channels |-> Arr(page)])) :
                    page \in Pages(ChannelKinds)}
            [] tool = "slack_read_messages" ->
                 {Response(200, "OK", Obj([ok |-> Bool(TRUE), messages |-> Arr(page)])) :
                    page \in Pages(MessageKinds)}
            [] OTHER ->
                 {Response(200, "OK",
                           Obj([ok |-> Bool(TRUE),
                                message |-> Obj([ts |-> Str("1.3")])]))})

GraphQLMessages == {"Could not resolve to a node", "API rate limit exceeded"}

\* The top-level errors lists of at most MaxErrors messages.
ErrorLists ==
  UNION {[1..n -> {Obj([message |-> Str(m)]) : m \in GraphQLMessages}] :
           n \in 0..MaxErrors}

Status(name) == Obj([name |-> Str(name), field |-> Obj([name |-> Str("Status")])])

ItemKinds ==
  {Obj([id |-> Str("I1"), fieldValues |-> Obj([nodes |-> Arr(<<Obj(NoKeys), Status("Done")>>)])]),
   Obj([id |-> Str("I2"), fieldValues |-> Obj([nodes |-> Arr(<<Status("In Progress")>>)])]),
   Obj([id |-> Str("I3"),
        fieldValues |-> Obj([nodes |-> Arr(<<Obj([name |-> Str("Done"),
                                                 field |-> Obj([name |-> Str("Stage")])])>>)])]),
   Obj([id |-> Str("I4"), fieldValues |-> Obj([nodes |-> Arr(<<>>)])])}

PageInfo == Obj([hasNextPage |-> Bool(TRUE), endCursor |-> Str("cursor2")])

\* The data values a GraphQL query of the tool can come back with.
GraphQLData(tool) ==
  CASE tool = "github_list_projects" ->
         {Obj([user |-> Obj([projectsV2 |-> Obj([nodes |-> Arr(<<Obj([id |-> Str("P1")])>>)])])]),
          Obj([organization |-> Null])}
    [] tool = "github_get_project_fields" ->
         {Obj([node |-> Obj([fields |-> Obj([nodes |-> Arr(<<Obj([id |-> Str("F1")])>>)])])]),
          Obj([node |-> Obj(NoKeys)])}
    [] tool = "github_list_project_items" ->
         {Obj([node |-> Obj([items |-> Obj([pageInfo |-> PageInfo, nodes |-> Arr(page)])])]) :
            page \in Pages(ItemKinds)}
           \cup {Obj([node |-> Null]), Obj([node |-> Obj([items |-> Obj(NoKeys)])])}
    [] tool = "github_get_project_item" ->
         {Obj([node |-> Obj([id |-> Str("I1")])]), Obj([node |-> Null])}
    [] tool = "github_update_project_item_field" ->
         {Obj([updateProjectV2ItemFieldValue |-> Obj([projectV2Item |-> Obj([id |-> Str("I1")])])])}
    [] tool = "github_add_project_item" ->
         {Obj([addProjectV2ItemById |-> Obj([item |-> Obj([id |-> Str("I1")])])]),
          Obj([addProjectV2DraftIssue |-> Obj([projectItem |-> Obj([id |-> Str("I2")])])])}

GraphQLResponses(tool) ==
  FailedResponses
    \cup {Response(200, "OK", Obj([data |-> Null, errors |-> Arr(list)])) :
            list \in ErrorLists}
    \cup {Response(200, "OK", Obj([data |-> d, errors |-> Arr(<<Obj([message |-> Str(m)])>>)])) :
            d \in GraphQLData(tool), m \in GraphQLMessages}
    \cup {Response(200, "OK", Obj(NoKeys)),
          Response(200, "OK", Obj([data |-> Null]))}
    \cup {Response(200, "OK", Obj([data |-> d])) : d \in GraphQLData(tool)}

RestResponses ==
  FailedResponses
    \cup {Response(204, "No Content", Raw("")),
          Response(200, "OK", Arr(<<Obj([id |-> Num(1), body |-> Str("c")])>>)),
          Response(200, "OK", Obj([number |-> Num(7), state |-> Str("open")]))}

GraphQLTools ==
  {"github_list_projects", "github_get_project_fields", "github_list_project_items",
   "github_get_project_item", "github_update_project_item_field",
   "github_add_project_item"}

\* What the external API can answer to the request of a tool.
Responses(tool) ==
  IF tool \in Range(registerAsanaTools) THEN AsanaResponses
  ELSE IF tool \in Range(registerSlackTools) THEN SlackResponses(tool)
  ELSE IF tool \in GraphQLTools THEN GraphQLResponses(tool)
  ELSE RestResponses

\* ------------------------------------------------------------ the process

VARIABLES
  env,       \* process.env, restricted to the three credentials
  phase,     \* "starting", "registered", "ready" or "exited"
  registry,  \* the tool names registered on the server, in order
  exitCode,  \* the status process.exit was called with, -1 before
  pc,        \* the invocation: "idle", "awaiting" (request in flight), "returned"
  tool,      \* the tool invoked
  args,      \* its arguments
  outbound,  \* the HTTP requests the invocation has issued
  response,  \* the response its request got
  result,    \* what the handler did, once it has returned: its completion,
             \* with the outcomes of its transport calls
  inflight   \* the invocations the runtime has running at the same time,
             \* each with the locals of its own handler call

vars ==
  <<env, phase, registry, exitCode, pc, tool, args, outbound, response, result,
    inflight>>

NoResult == [t |-> "none"]

\* The invocations the runtime has running at the same time.
Slots == 1..MaxInFlight
\* An invocation: the call the runtime made (tool, args), where the handler
\* is, the requests it has issued, the response it got and what it did.
Frame(p, name, a, out, resp, res) ==
  [pc |-> p, tool |-> name, args |-> a, outbound |-> out, response |-> resp,
   result |-> res]
NoFrame == Frame("idle", "", NoKeys, <<>>, Pending, NoResult)

\* All HTTP requests of the transport calls of a handler run, in order.
RECURSIVE Fetches(_)
Fetches(calls) ==
  IF Len(calls) = 0 THEN <<>> ELSE Head(calls).fetches \o Fetches(Tail(calls))

Init ==
  /\ env \in [Integrations -> EnvValues]
  /\ phase = "starting"
  /\ registry = <<>>
  /\ exitCode = -1
  /\ pc = "idle"
  /\ tool = ""
  /\ args = NoKeys
  /\ outbound = <<>>
  /\ response = Pending
  /\ result = NoResult
  /\ inflight = [s \in Slots |-> NoFrame]

\* A main that has registered only the Asana tools by the time it goes on to
\* connect.
RegisterToolsPartly ==
  /\ phase = "starting"
  /\ phase' = "registered"
  /\ registry' = registry \o (IF Truthy(env["ASANA_TOKEN"]) THEN registerAsanaTools ELSE <<>>)
  /\ UNCHANGED <<env, inflight, exitCode, pc, tool, args, outbound, response, result>>

\* main: registerTools(server)
RegisterTools ==
  /\ phase = "starting"
  /\ phase' = "registered"
  /\ registry' = registry \o registerTools(env)
  /\ UNCHANGED <<env, inflight, exitCode, pc, tool, args, outbound, response, result>>

\* main: await server.connect(transport) resolves
Connect ==
  /\ phase = "registered"
  /\ phase' = "ready"
  /\ UNCHANGED <<env, inflight, registry, exitCode, pc, tool, args, outbound, response, result>>

\* main: server.connect rejects; main().catch calls process.exit(1)
ConnectFails ==
  /\ phase = "registered"
  /\ phase' = "exited"
  /\ exitCode' = 1
  /\ UNCHANGED <<env, inflight, registry, pc, tool, args, outbound, response, result>>

\* The protocol runtime calls the handler registered under name with
\* validated arguments; the handler runs to its first await of fetch, or to
\* its return when it issues no request.
Invoke(name, a) ==
  /\ phase = "ready"
  /\ pc = "idle"
  /\ name \in Range(registry)
  /\ tool' = name
  /\ args' = a
  /\ \E h \in {Run(name, a, Unsettled)} :
     \E settled \in {Settled(h.calls, env, Pending)} :
       IF Fetches(settled) = <<>>
         THEN /\ pc' = "returned"
              /\ outbound' = <<>>
              /\ result' = [Run(name, a, Awaited(settled)) EXCEPT !.calls = settled]
         ELSE /\ pc' = "awaiting"
              /\ outbound' = <<Head(Fetches(settled))>>
              /\ result' = NoResult
  /\ UNCHANGED <<env, inflight, phase, registry, exitCode, response>>

\* The external API answers (or the network fails); the transport client and
\* the handler run on to the handler's return.
Respond(resp) ==
  /\ pc = "awaiting"
  /\ response' = resp
  /\ pc' = "returned"
  /\ \E h \in {Run(tool, args, Unsettled)} :
     \E settled \in {Settled(h.calls, env, resp)} :
       /\ outbound' = Fetches(settled)
       /\ result' = [Run(tool, args, Awaited(settled)) EXCEPT !.calls = settled]
  /\ UNCHANGED <<env, inflight, phase, registry, exitCode, tool, args>>

\* A runtime that treats an error-flagged envelope as fatal: it exits instead
\* of sending the envelope.
DeliverOrExit ==
  /\ pc = "returned"
  /\ pc' = "idle"
  /\ tool' = ""
  /\ args' = NoKeys
  /\ outbound' = <<>>
  /\ response' = Pending
  /\ result' = NoResult
  /\ IF result.val.isError
       THEN phase' = "exited" /\ exitCode' = 1
       ELSE UNCHANGED <<phase, exitCode>>
  /\ UNCHANGED <<env, inflight, registry>>

\* The runtime sends the envelope to the caller; nothing of the invocation
\* is retained.
Deliver ==
  /\ pc = "returned"
  /\ pc' = "idle"
  /\ tool' = ""
  /\ args' = NoKeys
  /\ outbound' = <<>>
  /\ response' = Pending
  /\ result' = NoResult
  /\ UNCHANGED <<env, inflight, phase, registry, exitCode>>

Next ==
  \/ RegisterTools
  \/ Connect
  \/ ConnectFails
  \/ \E name \in AllTools : \E a \in ArgsOf(name) : Invoke(name, a)
  \/ \E resp \in Responses(tool) : Respond(resp)
  \/ Deliver

Spec == Init /\ [][Next]_vars

\* A handler is called with validated arguments without a look at the
\* registry, as a caller that holds the callback itself can; it runs to its
\* first await of fetch, or to its return when it issues no request.
InvokeDirectly(name, a) ==
  /\ phase = "ready"
  /\ pc = "idle"
  /\ tool' = name
  /\ args' = a
  /\ \E h \in {Run(name, a, Unsettled)} :
     \E settled \in {Settled(h.calls, env, Pending)} :
       IF Fetches(settled) = <<>>
         THEN /\ pc' = "returned"
              /\ outbound' = <<>>
              /\ result' = [Run(name, a, Awaited(settled)) EXCEPT !.calls = settled]
         ELSE /\ pc' = "awaiting"
              /\ outbound' = <<Head(Fetches(settled))>>
              /\ result' = NoResult
  /\ UNCHANGED <<env, inflight, phase, registry, exitCode, response>>

NextDirect ==
  \/ RegisterTools
  \/ Connect
  \/ ConnectFails
  \/ \E name \in AllTools : \E a \in ArgsOf(name) : InvokeDirectly(name, a)
  \/ \E resp \in Responses(tool) : Respond(resp)
  \/ Deliver

\* The handlers and their transport clients under every environment, the
\* environments without the credential of the tool included.
SpecDirect == Init /\ [][NextDirect]_vars

\* ------------------------------------------------- concurrent invocations

\* The tools invoked concurrently, the arguments they are invoked with and
\* the responses their requests get: a sample of ArgsOf and of Responses.
ConcurrentTools == {"asana_update_task", "github_list_project_items"}
ConcurrentArgs(name) ==
  CASE name = "asana_update_task" ->
         {a \in ArgsOf(name) : DOMAIN a = {"task_gid", "name"}}
    [] name = "github_list_project_items" ->
         {a \in ArgsOf(name) : DOMAIN a = {"project_id", "status_filter"}}
    [] OTHER -> {}
ConcurrentResponses(name) ==
  Responses(name) \cap
    ({NetworkFailure}
       \cup {Response(200, "OK", Obj([data |-> Arr(<<k>>)])) : k \in AsanaKinds}
       \cup {Response(200, "OK",
                      Obj([data |-> Obj([node |-> Obj([items |->
                             Obj([pageInfo |-> PageInfo, nodes |-> Arr(<<k>>)])])])])) :
               k \in ItemKinds})

\* A module-level closure: the parameters and locals every handler call
\* would read if they were kept outside the call, those of the first
\* invocation still running.
LocalsShared(frames, slot) ==
  frames[CHOOSE s \in DOMAIN frames :
           /\ frames[s].pc # "idle"
           /\ \A t \in DOMAIN frames : frames[t].pc # "idle" => s <= t]

\* The closure of a handler call: the parameters the call destructures and
\* the locals it declares belong to that call, and the code after an await
\* reads them there.
Locals(frames, slot) == frames[slot]

\* The runtime calls a handler while other invocations await their
\* responses; the handler runs to its first await of fetch, or to its return
\* when it issues no request.
InvokeConcurrently(slot, name, a) ==
  /\ phase = "ready"
  /\ inflight[slot].pc = "idle"
  /\ name \in Range(registry)
  /\ \E h \in {Run(name, a, Unsettled)} :
     \E settled \in {Settled(h.calls, env, Pending)} :
       IF Fetches(settled) = <<>>
         THEN \E res \in {[Run(name, a, Awaited(settled)) EXCEPT !.calls = settled]} :
                inflight' = [inflight EXCEPT
                               ![slot] = Frame("returned", name, a, <<>>, Pending, res)]
         ELSE inflight' = [inflight EXCEPT
                             ![slot] = Frame("awaiting", name, a,
                                             <<Head(Fetches(settled))>>, Pending,
                                             NoResult)]
  /\ UNCHANGED <<env, phase, registry, exitCode, pc, tool, args, outbound, response, result>>

\* The response to the request of one invocation arrives; its transport
\* client and its handler run on to the handler's return, on the locals of
\* the handler call.
RespondTo(slot, resp) ==
  /\ inflight[slot].pc = "awaiting"
  /\ \E own \in {Locals(inflight, slot)} :
     \E h \in {Run(own.tool, own.args, Unsettled)} :
     \E settled \in {Settled(h.calls, env, resp)} :
     \E res \in {[Run(own.tool, own.args, Awaited(settled)) EXCEPT !.calls = settled]} :
       inflight' = [inflight EXCEPT
                      ![slot] = Frame("returned", inflight[slot].tool,
                                      inflight[slot].args, Fetches(settled), resp, res)]
  /\ UNCHANGED <<env, phase, registry, exitCode, pc, tool, args, outbound, response, result>>

\* The runtime sends the envelope of one invocation to its caller.
DeliverFrom(slot) ==
  /\ inflight[slot].pc = "returned"
  /\ inflight' = [inflight EXCEPT ![slot] = NoFrame]
  /\ UNCHANGED <<env, phase, registry, exitCode, pc, tool, args, outbound, response, result>>

NextConcurrent ==
  \/ RegisterTools
  \/ Connect
  \/ ConnectFails
  \/ \E slot \in Slots : \E name \in ConcurrentTools : \E a \in ConcurrentArgs(name) :
       InvokeConcurrently(slot, name, a)
  \/ \E slot \in Slots : \E resp \in ConcurrentResponses(inflight[slot].tool) :
       RespondTo(slot, resp)
  \/ \E slot \in Slots : DeliverFrom(slot)

\* The server with up to MaxInFlight invocations interleaved at their awaits.
SpecConcurrent == Init /\ [][NextConcurrent]_vars

\* ------------------------------------------------------------- properties

Started == phase # "starting"
Returned == pc = "returned"
Envelope == result.val
\* The parts of the text of the envelope's only content entry.
EnvelopeText == Interpolate(Envelope.content[1].text)
Contains(parts, s) == \E i \in DOMAIN parts : parts[i] = Str(s)
\* Some transport call of the handler run threw.
TransportThrew == \E i \in DOMAIN result.calls : result.calls[i].thrown
Supplied(k) == k \in DOMAIN args

\* C1 (as stated): once registerTools has run, a tool is registered if and
\* only if the credential variable of its integration is set in the
\* environment the process started with.
C1_AsStated ==
  Started =>
    \A name \in AllTools :
      name \in Range(registry) <=> env[IntegrationOf(name)].t # "undefined"

\* C1 (amended): once registerTools has run, and from then on, a tool is
\* registered if and only if the credential variable of its integration is
\* set to a non-empty value; a variable set to the empty string registers
\* nothing, like an unset one.
C1_RegistryMatchesCredentials ==
  Started =>
    \A name \in AllTools :
      name \in Range(registry) <=>
        (env[IntegrationOf(name)].t = "string" /\ env[IntegrationOf(name)].v # "")

C1_Witness ==
  /\ phase = "ready"
  /\ pc = "returned"
  /\ env["SLACK_TOKEN"] = Str("secret")
  /\ env["ASANA_TOKEN"] = Str("")
  /\ env["GITHUB_TOKEN"] = Undef
  /\ Range(registry) = Range(registerSlackTools)

\* C2 (as stated): every returned envelope has a non-empty content sequence
\* and its error flag is set if and only if the transport call threw.
C2_AsStated ==
  Returned =>
    /\ Len(Envelope.content) >= 1
    /\ Envelope.isError <=> TransportThrew

\* C2 (amended): every returned envelope has a non-empty content sequence,
\* and its error flag is set if and only if something threw inside the
\* handler's try block: the transport call, the check of the arguments, or
\* the reshaping of the response.  So the flag is set whenever the transport
\* call threw, and it is also set without any transport failure.
C2_ErrorFlagIffBodyThrew ==
  Returned =>
    /\ Len(Envelope.content) >= 1
    /\ Envelope.isError <=> result.body.thrown
    /\ TransportThrew => Envelope.isError

\* The transport call succeeded and the reshaping threw: flagged.
C2_Witness ==
  /\ Returned
  /\ tool = "slack_send_message"
  /\ ~TransportThrew
  /\ Len(result.calls) = 1
  /\ result.body.thrown
  /\ Envelope.isError

\* C3: no exception escapes a handler: whatever the transport call and the
\* reshaping do, the handler returns an envelope, and the process is still
\* serving.
C3_NoExceptionEscapes ==
  /\ Returned =>
       /\ ~result.thrown
       /\ DOMAIN Envelope = {"content", "isError"}
  /\ pc # "idle" => (phase = "ready" /\ exitCode = -1)

\* A malformed response made the reshaping throw a TypeError, and the handler
\* returned an envelope.
C3_Witness ==
  /\ Returned
  /\ tool = "github_list_project_items"
  /\ ~TransportThrew
  /\ result.body.thrown
  /\ result.body.val.name = "TypeError"
  /\ ~result.thrown
  /\ phase = "ready"

InFlightOrReturned == pc \in {"awaiting", "returned"}
\* The body of the only request issued, as the object that was serialised.
SentBody == outbound[1].body.v.v
RequiredMessage ==
  "Either content_id (for existing issue/PR) or draft_title (for draft issue) is required"

\* C4: github_add_project_item with neither content_id nor draft_title (or
\* both empty) returns an error-flagged envelope that says one of the two is
\* required, and calls no transport; a non-empty content_id takes the
\* addProjectV2ItemById path whatever draft_title and draft_body are; the
\* addProjectV2DraftIssue path is taken only without a non-empty content_id
\* and with a non-empty draft_title.
C4_AddProjectItemPaths ==
  (InFlightOrReturned /\ tool = "github_add_project_item") =>
    LET content_id == Arg(args, "content_id")
        draft_title == Arg(args, "draft_title")
    IN /\ (~Truthy(content_id) /\ ~Truthy(draft_title)) =>
            /\ Returned
            /\ Envelope.isError
            /\ Contains(EnvelopeText, RequiredMessage)
            /\ result.calls = <<>>
            /\ outbound = <<>>
       /\ Truthy(content_id) =>
            /\ Len(outbound) = 1
            /\ SentBody.query.v = AddItemByIdMutation
            /\ SentBody.variables.v.contentId = content_id
       /\ (Len(outbound) >= 1 /\ SentBody.query.v = AddDraftIssueMutation) =>
            /\ ~Truthy(content_id)
            /\ Truthy(draft_title)
            /\ SentBody.variables.v.title = draft_title
       /\ (~Truthy(content_id) /\ Truthy(draft_title)) =>
            /\ Len(outbound) = 1
            /\ SentBody.query.v = AddDraftIssueMutation

\* Both identifiers supplied: the existing item is added, no draft is made.
C4_Witness ==
  /\ Returned
  /\ tool = "github_add_project_item"
  /\ Arg(args, "content_id") = Str("x")
  /\ Arg(args, "draft_title") = Str("x")
  /\ Supplied("draft_body")
  /\ SentBody.query.v = AddItemByIdMutation
  /\ ~Envelope.isError

\* The value the envelope's text serialises, when it is JSON.
ReturnedJson == Envelope.content[1].text.v
\* The page of project items in the response.
FetchedItems == response.body.v.data.v.node.v.items
\* The response carries a page of project items.
PageFetched ==
  /\ response.t = "response"
  /\ ResponseOk(response)
  /\ response.body.t = "object"
  /\ DOMAIN response.body.v = {"data"}
  /\ response.body.v.data.t = "object"
  /\ response.body.v.data.v.node.t = "object"
  /\ "nodes" \in DOMAIN FetchedItems.v
\* The item has a field value of the field Status whose name is status.
InStatus(item, status) ==
  \E i \in DOMAIN item.v.fieldValues.v.nodes.v :
    LET fv == item.v.fieldValues.v.nodes.v[i].v
    IN /\ "field" \in DOMAIN fv
       /\ fv.field.v.name = Str("Status")
       /\ "name" \in DOMAIN fv
       /\ fv.name = status
\* The arguments args without status_filter.
Unfiltered == [k \in DOMAIN args \ {"status_filter"} |-> args[k]]
\* What the handler sends does not depend on status_filter.
SentWithoutFilter ==
  /\ Run(tool, Unfiltered, Unsettled).calls = Run(tool, args, Unsettled).calls
  /\ outbound = Fetches(Settled(Run(tool, Unfiltered, Unsettled).calls, env, Pending))

\* C5 (as stated): github_list_project_items sends the same page size and
\* cursor with and without a status_filter, returns exactly the fetched items
\* that have a field value of the field Status whose name equals the supplied
\* status_filter, in fetched order, and returns the pageInfo of the fetched
\* page.
C5_AsStated ==
  (InFlightOrReturned /\ tool = "github_list_project_items") =>
    /\ SentWithoutFilter
    /\ (Returned /\ PageFetched /\ Supplied("status_filter")) =>
         /\ ~Envelope.isError
         /\ ReturnedJson.v.items.v =
              SelectSeq(FetchedItems.v.nodes.v,
                        LAMBDA item : InStatus(item, args["status_filter"]))
         /\ ReturnedJson.v.pageInfo = FetchedItems.v.pageInfo

\* C5 (amended): the same, for a status_filter that is not the empty string;
\* with status_filter absent or empty the handler filters nothing and returns
\* every fetched item, in fetched order.
C5_PageThenFilter ==
  (InFlightOrReturned /\ tool = "github_list_project_items") =>
    /\ SentWithoutFilter
    /\ (Returned /\ PageFetched) =>
         /\ ~Envelope.isError
         /\ ReturnedJson.v.items.v =
              IF Supplied("status_filter") /\ args["status_filter"] # Str("")
                THEN SelectSeq(FetchedItems.v.nodes.v,
                               LAMBDA item : InStatus(item, args["status_filter"]))
                ELSE FetchedItems.v.nodes.v
         /\ ReturnedJson.v.pageInfo = FetchedItems.v.pageInfo

\* A page of two items, one of them Done, the other with the name Done under
\* another field: the filter keeps the first, and the cursor is the page's.
C5_Witness ==
  /\ Returned
  /\ tool = "github_list_project_items"
  /\ PageFetched
  /\ Arg(args, "status_filter") = Str("Done")
  /\ Len(FetchedItems.v.nodes.v) = 2
  /\ Len(ReturnedJson.v.items.v) = 1
  /\ \E i \in 1..2 : FetchedItems.v.nodes.v[i].v.id = Str("I3")
  /\ ReturnedJson.v.items.v[1].v.id = Str("I1")
  /\ ReturnedJson.v.pageInfo = PageInfo

OptionalFields ==
  IF tool = "asana_update_task" THEN {"name", "notes", "due_on", "completed"}
  ELSE {"title", "body", "state", "labels", "assignees"}
\* The update object the handler handed to its transport client, read back
\* from the serialised request body.
SentUpdates ==
  IF tool = "asana_update_task" THEN SentBody.data.v ELSE SentBody

\* C6: the update payload of asana_update_task and of github_update_issue has
\* exactly the optional fields the caller supplied, each with the supplied
\* value, false and the empty string included; with none supplied it is the
\* empty object.
C6_UpdateSendsSuppliedFields ==
  (InFlightOrReturned /\ tool \in {"asana_update_task", "github_update_issue"}) =>
    /\ Len(outbound) = 1
    /\ SentUpdates = [k \in DOMAIN args \cap OptionalFields |-> args[k]]

\* An empty name and completed: false are sent, and nothing else.
C6_Witness ==
  /\ Returned
  /\ tool = "asana_update_task"
  /\ DOMAIN args = {"task_gid", "name", "completed"}
  /\ args["name"] = Str("")
  /\ args["completed"] = Bool(FALSE)
  /\ SentUpdates = [name |-> Str(""), completed |-> Bool(FALSE)]

\* The payload of the response: HTTP success and a JSON object.
Payload == response.body.v
GotObject ==
  /\ response.t = "response"
  /\ ResponseOk(response)
  /\ response.status # 204
  /\ response.body.t = "object"

\* C7: when the Slack API answers with HTTP success, ok false and an error
\* string, every Slack handler returns an error-flagged envelope whose text
\* contains that string.
C7_SlackErrorReported ==
  (/\ Returned
   /\ tool \in Range(registerSlackTools)
   /\ GotObject
   /\ "ok" \in DOMAIN Payload /\ Payload.ok = Bool(FALSE)
   /\ "error" \in DOMAIN Payload /\ Payload.error.t = "string") =>
    /\ Envelope.isError
    /\ Contains(EnvelopeText, Payload.error.v)

C7_Witness ==
  /\ Returned
  /\ tool = "slack_send_message"
  /\ GotObject
  /\ Payload = [ok |-> Bool(FALSE), error |-> Str("channel_not_found")]
  /\ Envelope.isError
  /\ Contains(EnvelopeText, "channel_not_found")

\* C8: when a GraphQL response with HTTP success carries a top-level errors
\* list, every GraphQL-backed handler returns an error-flagged envelope whose
\* text contains every message of the list; a handler returns an unflagged
\* envelope only for a response without errors list, and then it reshapes the
\* data value of the response.
C8_GraphQLErrorsReported ==
  (Returned /\ tool \in GraphQLTools) =>
    /\ (GotObject /\ "errors" \in DOMAIN Payload /\ Payload.errors.t = "array") =>
         /\ Envelope.isError
         /\ \A i \in DOMAIN Payload.errors.v :
              Contains(EnvelopeText, Payload.errors.v[i].v.message.v)
    /\ ~Envelope.isError =>
         /\ GotObject
         /\ "errors" \notin DOMAIN Payload
    /\ (~Envelope.isError /\ tool = "github_update_project_item_field") =>
         Envelope.content[1].text = JSONstringify(Get(response.body, "data").val)
    /\ (~Envelope.isError /\ tool = "github_get_project_item") =>
         Envelope.content[1].text = JSONstringify(Payload.data.v.node)

\* Two messages in the errors list: both are in the text.
C8_Witness ==
  /\ Returned
  /\ tool = "github_get_project_item"
  /\ GotObject
  /\ "errors" \in DOMAIN Payload
  /\ Len(Payload.errors.v) = 2
  /\ Payload.errors.v[1] # Payload.errors.v[2]
  /\ Envelope.isError
  /\ Contains(EnvelopeText, "Could not resolve to a node")
  /\ Contains(EnvelopeText, "API rate limit exceeded")

\* The handler's own check of its arguments fails: no identifier to go by.
ArgumentConflict ==
  \/ /\ tool = "github_add_project_item"
     /\ ~Truthy(Arg(args, "content_id"))
     /\ ~Truthy(Arg(args, "draft_title"))
  \/ /\ tool = "asana_list_tasks"
     /\ ~Truthy(Arg(args, "section_gid"))
     /\ ~Truthy(Arg(args, "project_gid"))

\* C9 (as stated): every handler invocation makes exactly one transport call
\* before it returns its envelope.
C9_AsStated == Returned => Len(result.calls) = 1

\* C9 (amended): every handler invocation makes at most one transport call
\* before it returns: exactly one, except that github_add_project_item
\* without a non-empty content_id or draft_title and asana_list_tasks without
\* a non-empty section_gid or project_gid make none.
C9_OneTransportCallUnlessConflict ==
  Returned => Len(result.calls) = (IF ArgumentConflict THEN 0 ELSE 1)

\* asana_list_tasks with two empty identifiers returns without a call.
C9_Witness ==
  /\ Returned
  /\ tool = "asana_list_tasks"
  /\ Arg(args, "section_gid") = Str("")
  /\ Arg(args, "project_gid") = Str("")
  /\ result.calls = <<>>
  /\ Envelope.isError

\* The attempt failed: no response, a non-success status, or an error payload
\* of the API.
Failed(resp) ==
  \/ resp.t = "failure"
  \/ ~ResponseOk(resp)
  \/ /\ resp.body.t = "object"
     /\ \/ /\ tool \in Range(registerSlackTools)
           /\ Get(resp.body, "ok").val = Bool(FALSE)
        \/ /\ tool \in GraphQLTools
           /\ Get(resp.body, "errors").val.t = "array"

\* C10: an invocation issues at most one HTTP request, and a failed attempt
\* ends it: the step that takes the failure issues no further request and
\* returns the error-flagged envelope.
C10_SingleAttempt ==
  /\ [](Len(outbound) <= 1)
  /\ [][(pc = "awaiting" /\ Failed(response')) =>
          /\ pc' = "returned"
          /\ outbound' = outbound
          /\ result'.val.isError]_vars

\* The three kinds of failed attempt, each after one request.
C10_Witness ==
  /\ Returned
  /\ Len(outbound) = 1
  /\ Envelope.isError
  /\ tool = "asana_get_task"
  /\ response.t = "response"
  /\ response.status = 500

\* C11: whatever credentials the process starts with, no tool name is
\* registered twice, within one integration or across integrations: the
\* registry has as many distinct names as entries.
C11_RegisteredNamesUnique ==
  /\ \A i \in DOMAIN registry : \A j \in DOMAIN registry :
       i # j => registry[i] # registry[j]
  /\ Cardinality(Range(registry)) = Len(registry)

\* All three credentials present: the tools of all three integrations are
\* registered.
C11_Witness ==
  /\ phase = "ready"
  /\ \A x \in Integrations : Truthy(env[x])
  /\ Len(registry) =
       Len(registerAsanaTools) + Len(registerSlackTools) + Len(registerGithubProjectsTools)
  /\ Range(registry) = AllTools

NoCredential == \A x \in Integrations : ~Truthy(env[x])

\* C12: the process exits only from startup, with status 1, when connecting
\* the protocol transport fails (registerTools itself cannot fail); once
\* connected, no step of any invocation, whatever its outcome, leaves the
\* connected phase or sets an exit status.  Without any credential the
\* registration is no failure: the registry is empty and the server can
\* connect.
C12_ExitOnlyAtStartup ==
  /\ [](exitCode # -1 <=> phase = "exited")
  /\ []((phase = "registered" /\ NoCredential) =>
          (registry = <<>> /\ exitCode = -1 /\ ENABLED Connect))
  /\ [][exitCode' # exitCode =>
          (phase = "registered" /\ pc = "idle" /\ exitCode' = 1)]_vars
  /\ [][phase = "ready" => (phase' = "ready" /\ exitCode' = -1)]_vars

\* A connected server that has just returned an error-flagged envelope and
\* is still running.
C12_Witness ==
  /\ phase = "ready"
  /\ pc = "returned"
  /\ result.val.isError
  /\ response = NetworkFailure
  /\ exitCode = -1

\* The tools of the REST-style clients that report the response body.
RestTools == (AllTools \ Range(registerSlackTools)) \ GraphQLTools
\* The response has a non-success HTTP status.
HttpFailure == response.t = "response" /\ ~ResponseOk(response)

\* C13 (as stated): when the response has a non-success HTTP status, every
\* handler of the Asana, Slack and GitHub REST clients returns an
\* error-flagged envelope whose text contains the status code and the raw
\* response body.
C13_AsStated ==
  (Returned /\ HttpFailure /\ tool \notin GraphQLTools) =>
    /\ Envelope.isError
    /\ Digits(response.status) \in Range(EnvelopeText)
    /\ ResponseText(response) \in Range(EnvelopeText)

\* C13 (amended): when the response has a non-success HTTP status, every
\* handler returns an error-flagged envelope whose text contains the status
\* code; the handlers of the Asana and GitHub REST clients also put the raw
\* response body in it, the handlers of the Slack client put the status text
\* of the response in it and not its body.
C13_HttpFailureReported ==
  (Returned /\ HttpFailure /\ tool \notin GraphQLTools) =>
    /\ Envelope.isError
    /\ Digits(response.status) \in Range(EnvelopeText)
    /\ tool \in RestTools => ResponseText(response) \in Range(EnvelopeText)
    /\ tool \in Range(registerSlackTools) =>
         /\ Str(response.statusText) \in Range(EnvelopeText)
         /\ ResponseText(response) \notin Range(EnvelopeText)

\* Asana answers 500 with a body that is no JSON: status and body are in the
\* text of the envelope.
C13_Witness ==
  /\ Returned
  /\ tool = "asana_update_task"
  /\ response = Response(500, "Internal Server Error", Raw("upstream boom"))
  /\ Envelope.isError
  /\ EnvelopeText = <<Str("Error: "), Str("Error"), Str(": "), Str("Asana API error ("),
                      Digits(500), Str("): "), Str("upstream boom")>>

\* The handler caught an exception: its try block threw.
CaughtException == Returned /\ result.body.thrown

\* C14 (as stated): when a handler catches an exception, the envelope has the
\* error flag set and exactly one content entry, of kind text, whose text is
\* the string form of the exception.
C14_AsStated ==
  CaughtException =>
    /\ Envelope.isError
    /\ Len(Envelope.content) = 1
    /\ Envelope.content[1].type = "text"
    /\ EnvelopeText = Interpolate(result.body.val)

\* C14 (amended): when a handler catches an exception, the envelope has the
\* error flag set and exactly one content entry, of kind text, whose text is
\* "Error: " followed by the string form of the exception (its name, ": " and
\* its message).
C14_CaughtEnvelope ==
  CaughtException =>
    /\ Envelope.isError
    /\ Len(Envelope.content) = 1
    /\ DOMAIN Envelope.content[1] = {"type", "text"}
    /\ Envelope.content[1].type = "text"
    /\ EnvelopeText = <<Str("Error: ")>> \o Interpolate(result.body.val)
    /\ Interpolate(result.body.val) =
         <<Str(result.body.val.name), Str(": ")>> \o result.body.val.message

\* asana_list_tasks without identifiers: the text of the envelope.
C14_Witness ==
  /\ CaughtException
  /\ tool = "asana_list_tasks"
  /\ result.calls = <<>>
  /\ EnvelopeText = <<Str("Error: "), Str("Error"), Str(": "),
                      Str("Either project_gid or section_gid is required")>>

\* The tools with a documented default size, the argument that carries the
\* size, and the default documented.
SizedTools ==
  {"github_list_projects", "github_list_project_items", "slack_list_channels",
   "slack_read_messages"}
SizeArgument == IF tool \in GraphQLTools THEN "first" ELSE "limit"
DocumentedDefault ==
  CASE tool = "github_list_projects" -> Num(20)
    [] tool = "github_list_project_items" -> Num(50)
    [] tool = "slack_list_channels" -> Num(100)
    [] tool = "slack_read_messages" -> Num(10)
\* The size the request carries: a variable of the GraphQL query, a key of
\* the Slack body; undefined when the request has none.
SentSize ==
  IF tool \in GraphQLTools
    THEN Arg(SentBody.variables.v, "first")
    ELSE Arg(SentBody, "limit")

ChannelFields == {"id", "name", "is_private", "topic", "purpose", "num_members"}
MessageFields == {"user", "text", "ts", "thread_ts", "reply_count"}
AsanaListingTools ==
  {"asana_list_projects", "asana_list_workspaces", "asana_list_sections",
   "asana_list_tasks"}
\* The key of the payload that holds the records a listing tool fetches.
RecordsKey ==
  CASE tool = "slack_list_channels" -> "channels"
    [] tool = "slack_read_messages" -> "messages"
    [] OTHER -> "data"
\* The response carries a list of records, each of them an object.
RecordsFetched ==
  /\ GotObject
  /\ RecordsKey \in DOMAIN Payload
  /\ Payload[RecordsKey].t = "array"
  /\ \A i \in DOMAIN Payload[RecordsKey].v : Payload[RecordsKey].v[i].t = "object"
  /\ tool \in Range(registerSlackTools) => Get(response.body, "ok").val = Bool(TRUE)
FetchedRecords == Payload[RecordsKey].v
ReturnedRecords == ReturnedJson.v
\* The fields a listing tool is said to keep; for an Asana listing, the
\* fields of a compact record.
Projection ==
  CASE tool = "slack_list_channels" -> ChannelFields
    [] tool = "slack_read_messages" -> MessageFields
    [] OTHER -> {"gid", "name", "resource_type"}
\* Record r is record f narrowed to fields: the fields copied are those f
\* has, with the value f has, and a nested field is cut down to its value.
Narrowed(r, f, fields, nested) ==
  /\ DOMAIN r = DOMAIN f \cap fields
  /\ \A k \in DOMAIN r \ nested : r[k] = f[k]
  /\ \A k \in DOMAIN r \cap nested : r[k] = f[k].v.value

\* C16 (as stated): slack_list_channels, slack_read_messages and the Asana
\* listing tools return as many records as they fetched, in the fetched
\* order, and none of the returned records has a field outside the fixed
\* projection of the tool.
C16_AsStated ==
  (/\ Returned
   /\ tool \in {"slack_list_channels", "slack_read_messages"} \cup AsanaListingTools
   /\ RecordsFetched) =>
    /\ ~Envelope.isError
    /\ Len(ReturnedRecords) = Len(FetchedRecords)
    /\ \A i \in DOMAIN ReturnedRecords : DOMAIN ReturnedRecords[i].v \subseteq Projection

\* C16 (amended): the two Slack listing tools return as many records as they
\* fetched, in the fetched order, each narrowed to the fixed fields of the
\* tool (for a channel: id, name, is_private, num_members and the values of
\* topic and purpose) and without any other field; the Asana listing tools
\* narrow nothing: they return every fetched record with every field it has.
C16_ListingProjection ==
  (Returned /\ RecordsFetched) =>
    /\ tool \in {"slack_list_channels", "slack_read_messages"} =>
         /\ ~Envelope.isError
         /\ Len(ReturnedRecords) = Len(FetchedRecords)
         /\ \A i \in DOMAIN ReturnedRecords :
              Narrowed(ReturnedRecords[i].v, FetchedRecords[i].v, Projection,
                       {"topic", "purpose"})
    /\ tool \in AsanaListingTools =>
         /\ ~Envelope.isError
         /\ ReturnedRecords = FetchedRecords

\* Two different channels, the full one second: both come back in that
\* order, the full one without its creator and with its topic value.
C16_Witness ==
  /\ Returned
  /\ tool = "slack_list_channels"
  /\ RecordsFetched
  /\ Len(FetchedRecords) = 2
  /\ FetchedRecords[1].v.id = Str("C2")
  /\ FetchedRecords[2].v.id = Str("C1")
  /\ "creator" \in DOMAIN FetchedRecords[2].v
  /\ ReturnedRecords[1].v = [id |-> Str("C2"), name |-> Str("dm")]
  /\ DOMAIN ReturnedRecords[2].v = ChannelFields
  /\ ReturnedRecords[2].v.topic = Str("t")

TaskFields == Str("opt_fields=name,gid,completed,assignee.name,due_on,custom_fields")
\* The URL of the only request issued.
SentUrl == outbound[1].url

\* C17: asana_list_tasks with a non-empty section_gid requests the tasks of
\* the section, whatever project_gid is; without one and with a non-empty
\* project_gid it requests the tasks of the project; with neither (absent or
\* empty) it returns an error-flagged envelope that says either project_gid
\* or section_gid is required, and makes no transport call and no request.
C17_ListTasksEndpoint ==
  (InFlightOrReturned /\ tool = "asana_list_tasks") =>
    LET project_gid == Arg(args, "project_gid")
        section_gid == Arg(args, "section_gid")
    IN /\ Truthy(section_gid) =>
            /\ Len(outbound) = 1
            /\ SentUrl = <<ASANA_BASE_URL, Str("/sections/"), section_gid,
                           Str("/tasks?"), TaskFields>>
            /\ outbound[1].method = "GET"
       /\ (~Truthy(section_gid) /\ Truthy(project_gid)) =>
            /\ Len(outbound) = 1
            /\ SentUrl = <<ASANA_BASE_URL, Str("/projects/"), project_gid,
                           Str("/tasks?"), TaskFields>>
            /\ outbound[1].method = "GET"
       /\ (~Truthy(section_gid) /\ ~Truthy(project_gid)) =>
            /\ Returned
            /\ Envelope.isError
            /\ Contains(EnvelopeText, "Either project_gid or section_gid is required")
            /\ result.calls = <<>>
            /\ outbound = <<>>

\* Both identifiers supplied and non-empty: the section endpoint is used.
C17_Witness ==
  /\ Returned
  /\ tool = "asana_list_tasks"
  /\ Arg(args, "project_gid") = Str("x")
  /\ Arg(args, "section_gid") = Str("x")
  /\ SentUrl[2] = Str("/sections/")
  /\ ~Envelope.isError

\* The fields of the payload the request carries: the variables of a GraphQL
\* query, the data of an Asana body, the keys of a Slack or GitHub REST
\* body; none when the request has no body.
SentFields ==
  IF outbound[1].body.t = "undefined" THEN NoKeys
  ELSE IF tool \in GraphQLTools THEN SentBody.variables.v
  ELSE IF tool \in Range(registerAsanaTools) THEN SentBody.data.v
  ELSE SentBody
\* The request creates a draft issue.
DraftPath ==
  /\ tool = "github_add_project_item"
  /\ SentBody.query.v = AddDraftIssueMutation

\* C18 (as stated): no request carries a null: an optional argument the
\* caller did not supply is absent from the payload or replaced by a default.
C18_AsStated ==
  (InFlightOrReturned /\ Len(outbound) = 1) =>
    \A k \in DOMAIN SentFields : SentFields[k] # Null

\* C18 (amended): a request carries a null in exactly two cases, both for an
\* optional argument the caller did not supply: after of
\* github_list_project_items, and body (draft_body) of
\* github_add_project_item when it creates a draft; in both the null is
\* always sent.  Every other optional argument not supplied is absent from
\* the payload or replaced by a default.
C18_NullOnlyForAfterAndDraftBody ==
  (InFlightOrReturned /\ Len(outbound) = 1) =>
    /\ \A k \in DOMAIN SentFields :
         SentFields[k] = Null <=>
           \/ tool = "github_list_project_items" /\ k = "after" /\ ~Supplied("after")
           \/ DraftPath /\ k = "body" /\ ~Supplied("draft_body")
    /\ (tool = "github_list_project_items" /\ ~Supplied("after")) =>
         "after" \in DOMAIN SentFields
    /\ (DraftPath /\ ~Supplied("draft_body")) => "body" \in DOMAIN SentFields
    /\ \A k \in DOMAIN args \cap DOMAIN SentFields : SentFields[k] = args[k]

\* A draft issue without draft_body: body is sent as null.
C18_Witness ==
  /\ Returned
  /\ Len(outbound) = 1
  /\ DraftPath
  /\ ~Supplied("draft_body")
  /\ SentFields = [projectId |-> Str("id1"), title |-> Str("x"), body |-> Null]

\* The message of a transport client that finds its credential missing.
NotSetMessage ==
  CASE IntegrationOf(tool) = "ASANA_TOKEN" -> "ASANA_TOKEN environment variable not set"
    [] IntegrationOf(tool) = "SLACK_TOKEN" -> "SLACK_TOKEN environment variable not set"
    [] IntegrationOf(tool) = "GITHUB_TOKEN" -> "GITHUB_TOKEN environment variable not set"
\* The invocation failed with the missing-credential failure.
MissingCredentialFailure ==
  Returned /\ Envelope.isError /\ Contains(EnvelopeText, NotSetMessage)
CredentialPresent == Truthy(env[IntegrationOf(tool)])

\* C19: with the environment the process started with, every registered
\* tool has its credential, and an invocation whose credential is present
\* never fails with the missing-credential failure; a handler called while
\* its credential is absent calls its transport client (unless its own check
\* of the arguments fails first), and the client throws the
\* missing-credential failure without issuing any HTTP request.
C19_MissingCredential ==
  /\ \A name \in Range(registry) : Truthy(env[IntegrationOf(name)])
  /\ InFlightOrReturned =>
       /\ CredentialPresent => ~MissingCredentialFailure
       /\ (~CredentialPresent /\ ~ArgumentConflict) =>
            /\ MissingCredentialFailure
            /\ Len(result.calls) = 1
            /\ result.calls[1].thrown
            /\ result.calls[1].fetches = <<>>
            /\ outbound = <<>>
            /\ response = Pending
       /\ ~CredentialPresent => outbound = <<>>

\* asana_get_task called with an empty ASANA_TOKEN: no request, and the
\* envelope carries the fixed message.
C19_Witness ==
  /\ Returned
  /\ tool = "asana_get_task"
  /\ env["ASANA_TOKEN"] = Str("")
  /\ tool \notin Range(registry)
  /\ outbound = <<>>
  /\ EnvelopeText = <<Str("Error: "), Str("Error"), Str(": "),
                      Str("ASANA_TOKEN environment variable not set")>>

\* C20: the registry is filled in one step, before the transport is
\* connected, and never changes afterwards; a tool is dispatched only once
\* the server is connected, and the registry it is looked up in, the first
\* time and every later time, is the final one: every tool of every
\* integration whose credential is present.
C20_RegisteredBeforeConnect ==
  /\ [](phase # "starting" => registry = registerTools(env))
  /\ [](pc # "idle" => (phase = "ready" /\ tool \in Range(registry)))
  /\ [][registry' # registry => (phase = "starting" /\ phase' = "registered")]_vars
  /\ [][(phase' = "ready" /\ phase # "ready") =>
          (phase = "registered" /\ registry' = registry /\ pc' = "idle")]_vars
  /\ [][(pc = "idle" /\ pc' # "idle") =>
          (phase = "ready" /\ tool' \in Range(registry) /\ registry' = registerTools(env))]_vars

\* The first request, in flight: the registry holds the tools of both
\* integrations whose credential is present, and no others.
C20_Witness ==
  /\ pc = "awaiting"
  /\ phase = "ready"
  /\ tool = "slack_send_message"
  /\ ~Truthy(env["ASANA_TOKEN"])
  /\ registry = registerSlackTools \o registerGithubProjectsTools

\* What an invocation of tool name with arguments a leaves when it runs with
\* no other invocation in flight and its request gets resp (Pending: no
\* response yet): the outcome of Invoke(name, a), then of Respond(resp).
RanAlone(name, a, resp) ==
  LET h == Run(name, a, Unsettled)
      settled == Settled(h.calls, env, resp)
      res == [Run(name, a, Awaited(settled)) EXCEPT !.calls = settled]
  IN IF Fetches(settled) = <<>> THEN Frame("returned", name, a, <<>>, Pending, res)
     ELSE IF resp = Pending
            THEN Frame("awaiting", name, a, <<Head(Fetches(settled))>>, Pending, NoResult)
            ELSE Frame("returned", name, a, Fetches(settled), resp, res)
\* Every invocation in flight is where it would be had it run alone.
AsIfAlone ==
  \A s \in Slots :
    inflight[s].pc # "idle" =>
      inflight[s] = RanAlone(inflight[s].tool, inflight[s].args, inflight[s].response)
\* A step of one invocation changes nothing of another invocation, of the
\* registry or of the credentials.
OwnFrameOnly ==
  inflight' # inflight =>
    /\ \E s \in Slots : \A t \in Slots \ {s} : inflight'[t] = inflight[t]
    /\ registry' = registry
    /\ env' = env

====
